---- MODULE Spec2Model ----
(***************************************************************************)
(* Hazard monitoring and alert lifecycle engine of the 11th Hour disaster  *)
(* alert system: services/scheduler.js (checkRulesAndAlert, the two        *)
(* polling cycles and loops), services/earthquakeService.js,               *)
(* services/weatherService.js and the simulation routes of adminRoutes.js. *)
(*                                                                         *)
(* Every db.execute / axios call is an await: the handler that issued it   *)
(* is suspended and any other handler may run.  One action of this model   *)
(* is one such store or fetch call together with the synchronous code      *)
(* that follows it up to the next await.                                   *)
(*                                                                         *)
(* Numbers are naturals; a measurement, a magnitude and a threshold are    *)
(* in the same unit.  Coordinates lie on one meridian (integer degrees of  *)
(* latitude), where the haversine distance is R * pi/180 * |dlat|.         *)
(***************************************************************************)
EXTENDS Integers, Sequences, FiniteSets, TLC

VARIABLES
    alert_rules,         \* table alert_rules, in the order the rule query returns it
    disasters,           \* table disasters: id -> is_active
    locations,           \* table locations, in the order of SELECT * FROM locations
    alerts,              \* table alerts, in insertion order (index = id)
    earthquake_logs,     \* table earthquake_logs (rows are unique by location_id, usgs_id)
    settings,            \* table settings: setting_key -> setting_value or Absent
    cachedEarthquakes,   \* scheduler.js: let cachedEarthquakes
    earthquakeFetchTime, \* scheduler.js: let earthquakeFetchTime
    clock,               \* Date.now()
    task                 \* one frame per handler: where it is suspended and its locals

vars == <<alert_rules, disasters, locations, alerts, earthquake_logs, settings,
          cachedEarthquakes, earthquakeFetchTime, clock, task>>

---------------------------------------------------------------------------
(* Bounds of the model *)

MaxVal == 3        \* measurements and magnitudes range over 0..MaxVal
MaxAlerts == 4     \* rows the alerts table can hold; a further INSERT throws
MaxClock == 1      \* Date.now() ranges over 0..MaxClock
MaxInFlight == 2   \* handlers suspended at an await at the same time

---------------------------------------------------------------------------
(* Values *)

None == <<>>                 \* null / undefined object
Some(x) == <<x>>
Undefined == 0 - 1           \* null / undefined number (measurements are >= 0)
NoId == <<>>                 \* SQL NULL in a VARCHAR column; an id is a tuple <<source, n>>
Absent == <<>>               \* no row for a settings key

Vals == 0..MaxVal

Max(a, b) == IF a >= b THEN a ELSE b
Abs(a) == IF a >= 0 THEN a ELSE 0 - a

SEVERITY_RANK == [critical |-> 4, high |-> 3, medium |-> 2, low |-> 1]

ToLowerCase(s) ==
    CASE s = "Critical" -> "critical"
      [] s = "High" -> "high"
      [] s = "Medium" -> "medium"
      [] s = "Low" -> "low"
      [] OTHER -> s

Rank(severity) == SEVERITY_RANK[ToLowerCase(severity)]

---------------------------------------------------------------------------
(* Tables the engine only reads: locations, disasters, alert_rules *)

Location(id, lat) == [id |-> id, latitude |-> lat, is_active |-> TRUE]

Dhaka == Location(1, 24)
Rangpur == Location(2, 26)

Rule(id, loc, d, cond, op, thr, sev, act) ==
    [id |-> id, location_id |-> loc, disaster_id |-> d, weather_condition |-> cond,
     operator |-> op, threshold_value |-> thr, severity_level |-> sev, is_active |-> act]

Global == 0                  \* alert_rules.location_id IS NULL

\* disaster ids in the order the seed inserts them
Earthquake == 1
FlashFlood == 2
Heatwave == 3
ColdWave == 4
AirPollution == 5

DisasterIds == {Earthquake, FlashFlood, Heatwave, ColdWave, AirPollution}

AllActive == [d \in DisasterIds |-> TRUE]

\* the seeded tiers, two per disaster, thresholds scaled to 1 and 2
SeedFloodQuake ==
    [rules |-> << Rule(1, Global, FlashFlood, "rain_sum", ">=", 1, "Low", TRUE),
                  Rule(2, Global, FlashFlood, "rain_sum", ">=", 2, "Medium", TRUE),
                  Rule(3, Global, Earthquake, "earthquake_magnitude", ">=", 1, "Low", TRUE),
                  Rule(4, Global, Earthquake, "earthquake_magnitude", ">=", 2, "Medium", TRUE) >>,
     disasters |-> AllActive,
     locations |-> << Dhaka >>]

\* the seeded cold wave tiers (inserted most lenient first) and an air quality rule
SeedColdAir ==
    [rules |-> << Rule(1, Global, ColdWave, "temperature", "<=", 2, "Low", TRUE),
                  Rule(2, Global, ColdWave, "temperature", "<=", 1, "Medium", TRUE),
                  Rule(3, Global, AirPollution, "aqi", ">=", 1, "Low", TRUE) >>,
     disasters |-> AllActive,
     locations |-> << Dhaka >>]

\* the seeded tiers of one disaster returned in ascending threshold order: the
\* heatwave tiers (the higher threshold is the more severe tier) and the cold wave
\* tiers (the lower threshold is)
Operators == {">", "<", ">=", "<="}

AscendingTiers(op) ==
    [rules |-> << Rule(1, Global, IF op \in {">", ">="} THEN Heatwave ELSE ColdWave,
                       "temperature", op, 1, IF op \in {">", ">="} THEN "Low" ELSE "Medium", TRUE),
                  Rule(2, Global, IF op \in {">", ">="} THEN Heatwave ELSE ColdWave,
                       "temperature", op, 2, IF op \in {">", ">="} THEN "Medium" ELSE "Low", TRUE) >>,
     disasters |-> AllActive,
     locations |-> << Dhaka >>]

\* POST /rules accepts any condition for any disaster: a disaster with a
\* continuous-signal rule and a point-event rule
MixedDisaster ==
    [rules |-> << Rule(1, Global, Earthquake, "earthquake_magnitude", ">=", 2, "High", TRUE),
                  Rule(2, Global, Earthquake, "wind_speed", ">", 1, "Low", TRUE) >>,
     disasters |-> AllActive,
     locations |-> << Dhaka >>]

\* POST /rules accepts any threshold for any severity and any disaster: point-event
\* tiers stored most severe first, and a point-event rule of a second disaster
QuakeTiers ==
    [rules |-> << Rule(1, Global, Earthquake, "earthquake_magnitude", ">=", 2, "High", TRUE),
                  Rule(2, Global, Earthquake, "earthquake_magnitude", ">=", 1, "Low", TRUE),
                  Rule(3, Global, FlashFlood, "earthquake_magnitude", ">=", 1, "Medium", TRUE) >>,
     disasters |-> AllActive,
     locations |-> << Dhaka >>]

\* an inactive rule, a rule of an inactive disaster, a rule bound to one location
Filtered ==
    [rules |-> << Rule(1, Global, FlashFlood, "humidity", "<", 1, "Low", FALSE),
                  Rule(2, Global, Heatwave, "humidity", "<", 2, "High", TRUE),
                  Rule(3, 2, FlashFlood, "humidity", "<", 2, "Critical", TRUE),
                  Rule(4, 1, Earthquake, "earthquake_magnitude", ">", 1, "Medium", TRUE) >>,
     disasters |-> [AllActive EXCEPT ![Heatwave] = FALSE],
     locations |-> << Dhaka, Rangpur >>]

Databases ==
    {SeedFloodQuake, SeedColdAir, MixedDisaster, QuakeTiers, Filtered} \cup {AscendingTiers(op) : op \in Operators}

---------------------------------------------------------------------------
(* checkRulesAndAlert: the rule query and the evaluation of one rule *)

\* variant: SELECT ar.* FROM alert_rules ar WHERE ar.location_id = ? OR ar.location_id IS NULL
LoadRulesOfAnyStatus(locationId) ==
    SelectSeq(alert_rules, LAMBDA r : r.location_id = locationId \/ r.location_id = Global)

\* SELECT ar.* FROM alert_rules ar JOIN disasters d ... WHERE (ar.location_id = ?
\* OR ar.location_id IS NULL) AND d.is_active = 1 AND ar.is_active = 1
LoadRules(locationId) ==
    SelectSeq(alert_rules,
              LAMBDA r : /\ (r.location_id = locationId \/ r.location_id = Global)
                         /\ disasters[r.disaster_id]
                         /\ r.is_active)

RuleTarget(condition) ==
    IF condition = "earthquake_magnitude" THEN "earthquake" ELSE "weather"

\* weatherData?.field, earthquakeData?.magnitude
CurrentValue(condition, weatherData, earthquakeData) ==
    CASE condition = "rain_sum" ->
             IF weatherData = None THEN Undefined ELSE weatherData[1].rain
      [] condition = "wind_speed" ->
             IF weatherData = None THEN Undefined ELSE weatherData[1].wind_speed_10m
      [] condition = "temperature" ->
             IF weatherData = None THEN Undefined ELSE weatherData[1].temperature_2m
      [] condition = "humidity" ->
             IF weatherData = None THEN Undefined ELSE weatherData[1].relative_humidity_2m
      [] condition = "aqi" ->
             IF weatherData = None THEN Undefined ELSE weatherData[1].us_aqi
      [] condition = "earthquake_magnitude" ->
             IF earthquakeData = None THEN Undefined ELSE earthquakeData[1].magnitude

\* variant: >= compared as >
EvaluateOperatorStrictGe(operator, currentValue, threshold) ==
    \/ operator = ">" /\ currentValue > threshold
    \/ operator = "<" /\ currentValue < threshold
    \/ operator = ">=" /\ currentValue > threshold
    \/ operator = "<=" /\ currentValue <= threshold

\* the four if statements that set `triggered`
EvaluateOperator(operator, currentValue, threshold) ==
    \/ operator = ">" /\ currentValue > threshold
    \/ operator = "<" /\ currentValue < threshold
    \/ operator = ">=" /\ currentValue >= threshold
    \/ operator = "<=" /\ currentValue <= threshold

\* one pass of the rule loop body up to `if (triggered)`
RuleTriggers(rule, weatherData, earthquakeData) ==
    LET target == RuleTarget(rule.weather_condition)
        currentValue == CurrentValue(rule.weather_condition, weatherData, earthquakeData)
    IN  /\ ~(target = "weather" /\ weatherData = None)
        /\ ~(target = "earthquake" /\ earthquakeData = None)
        /\ currentValue # Undefined
        /\ EvaluateOperator(rule.operator, currentValue, rule.threshold_value)

\* variant: the filter keeps the earthquake rules instead
WeatherDisasterIdsInverted(rules) ==
    LET weatherRules == SelectSeq(rules, LAMBDA r : r.weather_condition = "earthquake_magnitude")
    IN  [k \in 1..Len(weatherRules) |-> weatherRules[k].disaster_id]

\* rules.filter(r => r.weather_condition !== 'earthquake_magnitude').map(r => r.disaster_id)
WeatherDisasterIds(rules) ==
    LET weatherRules == SelectSeq(rules, LAMBDA r : r.weather_condition # "earthquake_magnitude")
    IN  [k \in 1..Len(weatherRules) |-> weatherRules[k].disaster_id]

---------------------------------------------------------------------------
(* The statements checkRulesAndAlert sends to the alerts table *)

\* variant: the duplicate check looks at active alerts only
SelectByExternalIdActiveOnly(externalId, locationId) ==
    {k \in DOMAIN alerts : /\ alerts[k].external_id = externalId
                           /\ alerts[k].location_id = locationId
                           /\ alerts[k].is_active}

\* SELECT id FROM alerts WHERE external_id = ? AND location_id = ?
SelectByExternalId(externalId, locationId) ==
    {k \in DOMAIN alerts : alerts[k].external_id = externalId /\ alerts[k].location_id = locationId}

\* SELECT id ... FROM alerts WHERE disaster_id = ? AND location_id = ? AND is_active = 1
SelectActive(disasterId, locationId) ==
    {k \in DOMAIN alerts : /\ alerts[k].disaster_id = disasterId
                           /\ alerts[k].location_id = locationId
                           /\ alerts[k].is_active}

\* variant: DELETE FROM alerts WHERE disaster_id = ? AND location_id = ? AND is_active = 1
DeactivateByDelete(disasterId, locationId) ==
    SelectSeq(alerts, LAMBDA row : ~(/\ row.disaster_id = disasterId
                                     /\ row.location_id = locationId
                                     /\ row.is_active))

\* variant: only prior point-event alerts are deactivated
DeactivatePointEventOnly(disasterId, locationId) ==
    [k \in DOMAIN alerts |->
        IF k \in SelectActive(disasterId, locationId) /\ alerts[k].external_id # NoId
        THEN [alerts[k] EXCEPT !.is_active = FALSE]
        ELSE alerts[k]]

\* variant: the two parameters bound in the wrong order
DeactivateSwapped(disasterId, locationId) ==
    [k \in DOMAIN alerts |->
        IF k \in SelectActive(locationId, disasterId)
        THEN [alerts[k] EXCEPT !.is_active = FALSE]
        ELSE alerts[k]]

\* UPDATE alerts SET is_active = 0 WHERE disaster_id = ? AND location_id = ? AND is_active = 1
Deactivate(disasterId, locationId) ==
    [k \in DOMAIN alerts |->
        IF k \in SelectActive(disasterId, locationId)
        THEN [alerts[k] EXCEPT !.is_active = FALSE]
        ELSE alerts[k]]

\* variant: the INSERT without its external_id column
AlertRowWithoutExternalId(rule, locationId, externalId) ==
    [disaster_id |-> rule.disaster_id, location_id |-> locationId,
     severity |-> rule.severity_level, is_active |-> TRUE, external_id |-> NoId]

\* INSERT INTO alerts (disaster_id, location_id, title, description, severity, source,
\* external_id) VALUES (...): is_active defaults to TRUE
AlertRow(rule, locationId, externalId) ==
    [disaster_id |-> rule.disaster_id, location_id |-> locationId,
     severity |-> rule.severity_level, is_active |-> TRUE, external_id |-> externalId]

---------------------------------------------------------------------------
(* Handlers.  A frame holds the await a handler is suspended at (pc) and   *)
(* the locals that are live across awaits.                                 *)

Loops == {"weatherLoop", "earthquakeLoop"}                \* started by start()
Cycles == {"runCheck", "runEqCheck"}                      \* the exported cycles, run on demand
Requests == {"simulateWeather", "simulateEarthquake"}     \* admin routes
Direct == {"checkRulesAndAlert", "checkEarthquakesNearLocation"}   \* exported functions, called directly
Tasks == Loops \cup Cycles \cup Requests \cup Direct

WeatherCycles == {"weatherLoop", "runCheck"}              \* run runWeatherCheck
EarthquakeCycles == {"earthquakeLoop", "runEqCheck"}      \* run runEarthquakeCheck

Rest == {"idle", "off", "timer"}                          \* not suspended at an await

IdleFrame ==
    [pc |-> "idle",
     body |-> None,                 \* req.body of an admin route
     todo |-> <<>>,                 \* the locations a for loop has not finished (head: current)
     earthquakes |-> <<>>,          \* runEarthquakeCheck: const earthquakes
     weatherData |-> None,          \* checkRulesAndAlert parameters
     earthquakeData |-> None,
     rules |-> <<>>,                \* const [rules]
     ruleIndex |-> 0,               \* position of `for (const rule of rules)`
     passIndex |-> 0,               \* position of `for (const disasterId of weatherDisasterIds)`
     triggeredDisasterIds |-> {},
     before |-> <<>>,               \* history: the alert table when a direct call was made
     fired |-> {},                  \* history: positions of the rules that set triggered = true
     failed |-> FALSE,              \* history: the catch of checkRulesAndAlert ran
     redelivered |-> FALSE,         \* history: the call repeats the call before it
     delay |-> 0]                   \* the delay the pending setTimeout was armed with

\* await points inside checkRulesAndAlert
CallPcs == {"rules", "eq_dedup", "eq_deactivate", "eq_insert",
            "w_existing", "w_deactivate", "w_insert", "auto_select", "auto_deactivate"}

InCall(f) == f.pc \in CallPcs

LocationId(f) == Head(f.todo).id

CurrentRule(f) == f.rules[f.ruleIndex]

\* checkRulesAndAlert(location, weatherData, earthquakeData) up to its first await
EnterCall(f, weatherData, earthquakeData) ==
    [f EXCEPT !.pc = "rules", !.weatherData = weatherData, !.earthquakeData = earthquakeData,
              !.rules = <<>>, !.ruleIndex = 0, !.passIndex = 0,
              !.triggeredDisasterIds = {}, !.fired = {}, !.failed = FALSE]

\* the function returns: its promise resolves (the catch swallows every error)
Return(f) == [f EXCEPT !.pc = "ret"]

Catch(f) == [f EXCEPT !.pc = "ret", !.failed = TRUE]

\* the auto-deactivation pass from position j to its next await
RECURSIVE PassFrom(_, _)
PassFrom(f, j) ==
    LET weatherDisasterIds == WeatherDisasterIds(f.rules)
        g == [f EXCEPT !.ruleIndex = Len(f.rules) + 1, !.passIndex = j]
    IN  IF f.weatherData = None \/ j > Len(weatherDisasterIds) THEN Return(g)
        ELSE IF weatherDisasterIds[j] \notin f.triggeredDisasterIds
             THEN [g EXCEPT !.pc = "auto_select"]
             ELSE PassFrom(f, j + 1)

\* variant: the rule loop without triggeredDisasterIds.add(rule.disaster_id)
RECURSIVE LoopFromUntracked(_, _)
LoopFromUntracked(f, k) ==
    IF k > Len(f.rules) THEN PassFrom(f, 1)
    ELSE IF RuleTriggers(f.rules[k], f.weatherData, f.earthquakeData)
         THEN [f EXCEPT !.ruleIndex = k,
                        !.fired = @ \cup {k},
                        !.pc = IF RuleTarget(f.rules[k].weather_condition) = "earthquake"
                               THEN "eq_dedup" ELSE "w_existing"]
         ELSE LoopFromUntracked(f, k + 1)

\* the rule loop from position k to its next await
RECURSIVE LoopFrom(_, _)
LoopFrom(f, k) ==
    IF k > Len(f.rules) THEN PassFrom(f, 1)
    ELSE IF RuleTriggers(f.rules[k], f.weatherData, f.earthquakeData)
         THEN [f EXCEPT !.ruleIndex = k,
                        !.fired = @ \cup {k},
                        !.triggeredDisasterIds = @ \cup {f.rules[k].disaster_id},
                        !.pc = IF RuleTarget(f.rules[k].weather_condition) = "earthquake"
                               THEN "eq_dedup" ELSE "w_existing"]
         ELSE LoopFrom(f, k + 1)

\* `continue`, or the end of the loop body
NextRule(f) == LoopFrom(f, f.ruleIndex + 1)

NextPass(f) == PassFrom(f, f.passIndex + 1)

PassDisaster(f) == WeatherDisasterIds(f.rules)[f.passIndex]

StoreUnchanged == UNCHANGED <<alert_rules, disasters, locations, settings>>
CacheUnchanged == UNCHANGED <<cachedEarthquakes, earthquakeFetchTime>>

\* a step of handler t inside checkRulesAndAlert that leaves frame g and table al
CallStep(t, g, al) ==
    /\ task' = [task EXCEPT ![t] = g]
    /\ alerts' = al
    /\ StoreUnchanged /\ CacheUnchanged
    /\ UNCHANGED <<earthquake_logs, clock>>

\* const [rules] = await db.execute(SELECT ar.* ...)
QueryRules(t) ==
    /\ task[t].pc = "rules"
    /\ CallStep(t, LoopFrom([task[t] EXCEPT !.rules = LoadRules(LocationId(task[t]))], 1), alerts)

\* variant: existing.length > 1
AlreadyAlertedOffByOne(existing) == Cardinality(existing) > 1

\* if (existing.length > 0)
AlreadyAlerted(existing) == Cardinality(existing) > 0

\* const [existing] = await db.execute(SELECT id FROM alerts WHERE external_id = ? ...)
EqDedup(t) ==
    /\ task[t].pc = "eq_dedup"
    /\ LET f == task[t]
           existing == SelectByExternalId(f.earthquakeData[1].id, LocationId(f))
       IN  CallStep(t, IF AlreadyAlerted(existing) THEN NextRule(f)
                       ELSE [f EXCEPT !.pc = "eq_deactivate"],
                    alerts)

EqDeactivate(t) ==
    /\ task[t].pc = "eq_deactivate"
    /\ LET f == task[t]
       IN  CallStep(t, [f EXCEPT !.pc = "eq_insert"],
                    Deactivate(CurrentRule(f).disaster_id, LocationId(f)))

EqInsert(t) ==
    /\ task[t].pc = "eq_insert"
    /\ Len(alerts) < MaxAlerts
    /\ LET f == task[t]
       IN  CallStep(t, NextRule(f),
                    Append(alerts, AlertRow(CurrentRule(f), LocationId(f), f.earthquakeData[1].id)))

\* variant: the prior alert is superseded only by a rule of higher severity
SupersedesLowerSeverity(existingRows, newSeverity) ==
    \E k \in existingRows : SEVERITY_RANK[ToLowerCase(alerts[k].severity)] < SEVERITY_RANK[newSeverity]

\* variant: the prior alert is superseded only when its severity differs from the new one
SupersedesOtherSeverity(existingRows, newSeverity) ==
    \E k \in existingRows : ToLowerCase(alerts[k].severity) # newSeverity

\* if (existingRows.length > 0): existingSeverity and newSeverity are computed and not compared
Supersedes(existingRows, newSeverity) == existingRows # {}

\* const [existingRows] = await db.execute(SELECT id, severity FROM alerts WHERE ... is_active = 1 ...)
WExisting(t) ==
    /\ task[t].pc = "w_existing"
    /\ LET f == task[t]
           existingRows == SelectActive(CurrentRule(f).disaster_id, LocationId(f))
           newSeverity == ToLowerCase(CurrentRule(f).severity_level)
       IN  CallStep(t, [f EXCEPT !.pc = IF Supersedes(existingRows, newSeverity)
                                        THEN "w_deactivate" ELSE "w_insert"],
                    alerts)

WDeactivate(t) ==
    /\ task[t].pc = "w_deactivate"
    /\ LET f == task[t]
       IN  CallStep(t, [f EXCEPT !.pc = "w_insert"],
                    Deactivate(CurrentRule(f).disaster_id, LocationId(f)))

WInsert(t) ==
    /\ task[t].pc = "w_insert"
    /\ Len(alerts) < MaxAlerts
    /\ LET f == task[t]
       IN  CallStep(t, NextRule(f), Append(alerts, AlertRow(CurrentRule(f), LocationId(f), NoId)))

\* const [activeAlerts] = await db.execute(SELECT id FROM alerts WHERE ... is_active = 1)
AutoSelect(t) ==
    /\ task[t].pc = "auto_select"
    /\ LET f == task[t]
           activeAlerts == SelectActive(PassDisaster(f), LocationId(f))
       IN  CallStep(t, IF activeAlerts # {} THEN [f EXCEPT !.pc = "auto_deactivate"]
                       ELSE NextPass(f),
                    alerts)

AutoDeactivate(t) ==
    /\ task[t].pc = "auto_deactivate"
    /\ LET f == task[t]
       IN  CallStep(t, NextPass(f), Deactivate(PassDisaster(f), LocationId(f)))

\* a db.execute of checkRulesAndAlert rejects: catch (error) { console.error(...) }
StoreThrows(t) ==
    /\ InCall(task[t])
    /\ CallStep(t, Catch(task[t]), alerts)

---------------------------------------------------------------------------
(* Signal fetchers and the geospatial matcher *)

EarthRadiusKm == 6371
RadiusKm == 500

\* getDistanceFromLatLonInKm for two points of one meridian: R * c with
\* c = |lat2 - lat1| * pi / 180, in whole km (pi as 3142 / 1000)
GetDistanceFromLatLonInKm(lat1, lat2) ==
    (EarthRadiusKm * 3142 * Abs(lat2 - lat1)) \div (180 * 1000)

\* a relational operator converts null to 0 (properties.mag of a feature may be null)
ToNumber(x) == IF x = Undefined THEN 0 ELSE x

\* checkEarthquakesNearLocation: the loop body for feed[k], maxEq so far
RECURSIVE NearFrom(_, _, _, _)
NearFrom(feed, k, lat, maxEq) ==
    IF k > Len(feed) THEN maxEq
    ELSE LET eq == feed[k]
             distance == GetDistanceFromLatLonInKm(lat, eq.lat)
         IN  IF distance <= RadiusKm
                /\ (maxEq = None \/ ToNumber(eq.mag) > ToNumber(maxEq[1].magnitude))
             THEN NearFrom(feed, k + 1, lat, Some([id |-> eq.id, magnitude |-> eq.mag]))
             ELSE NearFrom(feed, k + 1, lat, maxEq)

\* variant: the closest event within the radius is kept
CheckNearestEvent(earthquakes, lat) ==
    LET near == {k \in DOMAIN earthquakes :
                    GetDistanceFromLatLonInKm(lat, earthquakes[k].lat) <= RadiusKm}
        closest == CHOOSE k \in near : \A j \in near :
                       \/ GetDistanceFromLatLonInKm(lat, earthquakes[k].lat)
                             < GetDistanceFromLatLonInKm(lat, earthquakes[j].lat)
                       \/ /\ GetDistanceFromLatLonInKm(lat, earthquakes[k].lat)
                               = GetDistanceFromLatLonInKm(lat, earthquakes[j].lat)
                          /\ k <= j
    IN  IF near = {} THEN None
        ELSE Some([id |-> earthquakes[closest].id, magnitude |-> earthquakes[closest].mag])

CheckEarthquakesNearLocation(earthquakes, lat) == NearFrom(earthquakes, 1, lat, None)

\* a feature of the USGS feed: id, properties.mag, geometry.coordinates[1]
Quake(n, mag, lat) == [id |-> <<"us", n>>, mag |-> mag, lat |-> lat]

\* a feature whose geometry is null, as GeoJSON allows
Unlocated(n, mag) == Quake(n, mag, Undefined)

\* checkEarthquakesNearLocation throws: eq.geometry.coordinates of a null geometry
MatcherThrows(earthquakes) ==
    \E k \in DOMAIN earthquakes : earthquakes[k].lat = Undefined

\* the conditions some rule of the table refers to
UsedConditions == {alert_rules[k].weather_condition : k \in DOMAIN alert_rules}

Field(condition, v) == IF condition \in UsedConditions THEN v ELSE {0}

\* what fetchWeatherData can return ({...weatherData, us_aqi}); a measurement no
\* rule refers to is 0
Readings ==
    [rain : Field("rain_sum", Vals),
     wind_speed_10m : Field("wind_speed", Vals),
     temperature_2m : Field("temperature", Vals),
     relative_humidity_2m : Field("humidity", Vals),
     us_aqi : Field("aqi", Vals \cup {Undefined})]

\* req.body of POST /simulate-weather: a field is a number or missing
WeatherBodies ==
    [temperature : Field("temperature", Vals \cup {Undefined}),
     rain_sum : Field("rain_sum", Vals \cup {Undefined}),
     wind_speed : Field("wind_speed", Vals \cup {Undefined}),
     humidity : Field("humidity", Vals \cup {Undefined}),
     aqi : Field("aqi", Vals \cup {Undefined})]

\* parseFloat(x) || 0
ParseFloatOrZero(x) == IF x = Undefined THEN 0 ELSE x

\* the synthetic weatherData of POST /simulate-weather
SyntheticWeatherData(body) ==
    [temperature_2m |-> ParseFloatOrZero(body.temperature),
     rain |-> ParseFloatOrZero(body.rain_sum),
     wind_speed_10m |-> ParseFloatOrZero(body.wind_speed),
     relative_humidity_2m |-> ParseFloatOrZero(body.humidity),
     us_aqi |-> body.aqi]

\* Date.now(): the clock does not go back
Now == clock..MaxClock

\* SELECT * FROM locations WHERE is_active = 1
ActiveLocations == SelectSeq(locations, LAMBDA l : l.is_active)

\* variant: a plain INSERT into a table without the unique key
LogEarthquakeDataNoKey(locationId, earthquakeData) ==
    earthquake_logs \cup {[location_id |-> locationId, magnitude |-> earthquakeData.magnitude,
                           usgs_id |-> earthquakeData.id, is_manual |-> FALSE]}

\* logEarthquakeData: INSERT INTO earthquake_logs (location_id, magnitude, usgs_id)
\* ... ON DUPLICATE KEY UPDATE fetched_at = CURRENT_TIMESTAMP (is_manual keeps its default)
LogEarthquakeData(locationId, earthquakeData) ==
    IF \E row \in earthquake_logs :
           row.location_id = locationId /\ row.usgs_id = earthquakeData.id
    THEN earthquake_logs
    ELSE earthquake_logs \cup {[location_id |-> locationId, magnitude |-> earthquakeData.magnitude,
                               usgs_id |-> earthquakeData.id, is_manual |-> FALSE]}

---------------------------------------------------------------------------
(* runWeatherCheck and runEarthquakeCheck *)

\* a step of handler t outside checkRulesAndAlert that leaves frame g
HandlerStep(t, g) ==
    /\ task' = [task EXCEPT ![t] = g]
    /\ UNCHANGED alerts
    /\ StoreUnchanged

\* the cycle is over: a loop goes on to getSetting, an on-demand run is done
EndCycle(t) == IF t \in Loops THEN [IdleFrame EXCEPT !.pc = "setting"] ELSE IdleFrame

\* the catch of a cycle runs while location Head(f.todo) is processed: the
\* rest of the for loop is not run
Abort(t, f) == [EndCycle(t) EXCEPT !.todo = Tail(f.todo)]

\* runCheck(), runEqCheck(): the exported cycles, called directly
RunCheck ==
    /\ task["runCheck"].pc = "idle"
    /\ HandlerStep("runCheck", [IdleFrame EXCEPT !.pc = "w_locations"])
    /\ CacheUnchanged /\ UNCHANGED <<earthquake_logs, clock>>

RunEqCheck ==
    /\ task["runEqCheck"].pc = "idle"
    /\ HandlerStep("runEqCheck", [IdleFrame EXCEPT !.pc = "e_fetch"])
    /\ CacheUnchanged /\ UNCHANGED <<earthquake_logs, clock>>

\* runWeatherCheck: const [locations] = await db.execute(SELECT * FROM locations ...)
WeatherLocations(t) ==
    /\ t \in WeatherCycles
    /\ task[t].pc = "w_locations"
    /\ HandlerStep(t, IF ActiveLocations = <<>> THEN EndCycle(t)
                      ELSE [task[t] EXCEPT !.pc = "w_fetch", !.todo = ActiveLocations])
    /\ CacheUnchanged /\ UNCHANGED <<earthquake_logs, clock>>

\* the for loop of runWeatherCheck moves to its next location
NextWeatherLocation(t, f) ==
    IF Len(f.todo) > 1
    THEN [IdleFrame EXCEPT !.pc = "w_fetch", !.todo = Tail(f.todo)]
    ELSE EndCycle(t)

\* variant: the cache is not consulted
ReadCacheSkipped(lat) == None

\* let earthquakeData = null; if (cachedEarthquakes) earthquakeData =
\* checkEarthquakesNearLocation(cachedEarthquakes, ...)
ReadCache(lat) ==
    IF cachedEarthquakes # None THEN CheckEarthquakesNearLocation(cachedEarthquakes[1], lat)
    ELSE None

\* const weatherData = await weatherService.fetchWeatherData(...): a reading, or null
\* when a request failed; then the cache is read for the log
WeatherFetch(t, readings) ==
    /\ t \in WeatherCycles
    /\ task[t].pc = "w_fetch"
    /\ \E weatherData \in {None} \cup {Some(r) : r \in readings} :
          HandlerStep(t, IF cachedEarthquakes # None /\ MatcherThrows(cachedEarthquakes[1])
                         THEN Abort(t, task[t])
                         ELSE IF weatherData = None THEN NextWeatherLocation(t, task[t])
                         ELSE [task[t] EXCEPT !.pc = "w_log", !.weatherData = weatherData,
                                  !.earthquakeData = ReadCache(Head(task[t].todo).latitude)])
    /\ CacheUnchanged /\ UNCHANGED <<earthquake_logs, clock>>

\* await weatherService.logWeatherData(...): writes weather_logs, a table nothing
\* else of the engine reads, and swallows its errors; then checkRulesAndAlert is entered
WeatherLog(t) ==
    /\ t \in WeatherCycles
    /\ task[t].pc = "w_log"
    /\ HandlerStep(t, EnterCall(task[t], task[t].weatherData, None))
    /\ CacheUnchanged /\ UNCHANGED <<earthquake_logs, clock>>

\* await checkRulesAndAlert(location, weatherData, null) returned
WeatherNext(t) ==
    /\ t \in WeatherCycles
    /\ task[t].pc = "ret"
    /\ HandlerStep(t, NextWeatherLocation(t, task[t]))
    /\ CacheUnchanged /\ UNCHANGED <<earthquake_logs, clock>>

\* the for loop of runEarthquakeCheck from the head of f.todo to its next await
RECURSIVE QuakeFrom(_, _)
QuakeFrom(t, f) ==
    IF f.todo = <<>> THEN EndCycle(t)
    ELSE IF MatcherThrows(f.earthquakes) THEN Abort(t, f)
    ELSE LET earthquakeData == CheckEarthquakesNearLocation(f.earthquakes, Head(f.todo).latitude)
         IN  IF earthquakeData # None
             THEN [f EXCEPT !.pc = "e_log", !.earthquakeData = earthquakeData]
             ELSE QuakeFrom(t, [f EXCEPT !.todo = Tail(f.todo)])

\* variant: the timestamp is assigned after the next await, not with the feed
EarthquakeFetchFeedOnly(t, feeds) ==
    /\ t \in EarthquakeCycles
    /\ task[t].pc = "e_fetch"
    /\ \E earthquakes \in feeds \cup {<<>>}, now \in Now :
          /\ cachedEarthquakes' = Some(earthquakes)
          /\ clock' = now
          /\ HandlerStep(t, [task[t] EXCEPT !.pc = "e_locations", !.earthquakes = earthquakes])
    /\ UNCHANGED <<earthquake_logs, earthquakeFetchTime>>

\* const earthquakes = await fetchRecentEarthquakes() (the feed, or [] when the
\* request failed); cachedEarthquakes = earthquakes; earthquakeFetchTime = Date.now()
EarthquakeFetch(t, feeds) ==
    /\ t \in EarthquakeCycles
    /\ task[t].pc = "e_fetch"
    /\ \E earthquakes \in feeds \cup {<<>>}, now \in Now :
          /\ cachedEarthquakes' = Some(earthquakes)
          /\ earthquakeFetchTime' = now
          /\ clock' = now
          /\ HandlerStep(t, [task[t] EXCEPT !.pc = "e_locations", !.earthquakes = earthquakes])
    /\ UNCHANGED earthquake_logs

\* runEarthquakeCheck: const [locations] = await db.execute(SELECT * FROM locations ...)
EarthquakeLocations(t) ==
    /\ t \in EarthquakeCycles
    /\ task[t].pc = "e_locations"
    /\ HandlerStep(t, QuakeFrom(t, [task[t] EXCEPT !.todo = ActiveLocations]))
    /\ CacheUnchanged /\ UNCHANGED <<earthquake_logs, clock>>

\* await earthquakeService.logEarthquakeData(location.id, earthquakeData), which
\* swallows its errors; then checkRulesAndAlert is entered
EarthquakeLog(t) ==
    /\ t \in EarthquakeCycles
    /\ task[t].pc = "e_log"
    /\ earthquake_logs' \in {earthquake_logs,
                             LogEarthquakeData(LocationId(task[t]), task[t].earthquakeData[1])}
    /\ HandlerStep(t, EnterCall(task[t], None, task[t].earthquakeData))
    /\ CacheUnchanged /\ UNCHANGED clock

\* await checkRulesAndAlert(location, null, earthquakeData) returned
EarthquakeNext(t) ==
    /\ t \in EarthquakeCycles
    /\ task[t].pc = "ret"
    /\ HandlerStep(t, QuakeFrom(t, [IdleFrame EXCEPT !.todo = Tail(task[t].todo),
                                                     !.earthquakes = task[t].earthquakes]))
    /\ CacheUnchanged /\ UNCHANGED <<earthquake_logs, clock>>

\* the SELECT of the locations rejects: the catch of the cycle logs it
CycleThrows(t) ==
    /\ task[t].pc \in {"w_locations", "e_locations"}
    /\ HandlerStep(t, EndCycle(t))
    /\ CacheUnchanged /\ UNCHANGED <<earthquake_logs, clock>>

---------------------------------------------------------------------------
(* The admin routes that call checkRulesAndAlert *)

\* the handlers suspended at an await
InFlight == {t \in Tasks : task[t].pc \notin Rest}

\* POST /simulate-weather up to its SELECT of the location
SimulateWeather(locationId, body) ==
    /\ task["simulateWeather"].pc = "idle"
    /\ Cardinality(InFlight) < MaxInFlight
    /\ locationId # 0
    /\ HandlerStep("simulateWeather",
                   [IdleFrame EXCEPT !.pc = "sw_location",
                                     !.body = Some([location_id |-> locationId, fields |-> body])])
    /\ CacheUnchanged /\ UNCHANGED <<earthquake_logs, clock>>

\* const [locationRows] = await db.execute(SELECT * FROM locations WHERE id = ?);
\* 404 without a row, else the synthetic weatherData is evaluated
SimulateWeatherLocation ==
    /\ task["simulateWeather"].pc = "sw_location"
    /\ LET f == task["simulateWeather"]
           locationRows == SelectSeq(locations, LAMBDA l : l.id = f.body[1].location_id)
       IN  HandlerStep("simulateWeather",
                       IF locationRows = <<>> THEN IdleFrame
                       ELSE EnterCall([f EXCEPT !.todo = <<locationRows[1]>>],
                                      Some(SyntheticWeatherData(f.body[1].fields)), None))
    /\ CacheUnchanged /\ UNCHANGED <<earthquake_logs, clock>>

\* res.json(...) after checkRulesAndAlert returned
SimulateWeatherRespond ==
    /\ task["simulateWeather"].pc = "ret"
    /\ HandlerStep("simulateWeather", IdleFrame)
    /\ CacheUnchanged /\ UNCHANGED <<earthquake_logs, clock>>

\* POST /simulate-earthquake up to its SELECT of the active locations
SimulateEarthquake(latitude, magnitude) ==
    /\ task["simulateEarthquake"].pc = "idle"
    /\ Cardinality(InFlight) < MaxInFlight
    /\ ~(latitude = Undefined \/ magnitude = Undefined \/ magnitude = 0)
    /\ HandlerStep("simulateEarthquake",
                   [IdleFrame EXCEPT !.pc = "se_locations",
                                     !.body = Some([latitude |-> latitude, magnitude |-> magnitude])])
    /\ CacheUnchanged /\ UNCHANGED <<earthquake_logs, clock>>

\* the for loop of the route from the head of f.todo to its next await
RECURSIVE AffectedFrom(_)
AffectedFrom(f) ==
    IF f.todo = <<>> THEN IdleFrame
    ELSE IF GetDistanceFromLatLonInKm(f.body[1].latitude, Head(f.todo).latitude) <= RadiusKm
         THEN [f EXCEPT !.pc = "se_log"]
         ELSE AffectedFrom([f EXCEPT !.todo = Tail(f.todo)])

\* const [locationRows] = await db.execute(...); 404 without a row; usgs_id = `test-eq-${Date.now()}`
SimulateEarthquakeLocations ==
    /\ task["simulateEarthquake"].pc = "se_locations"
    /\ \E now \in Now :
          LET f == task["simulateEarthquake"]
              earthquakeData == [id |-> <<"test-eq", now>>, magnitude |-> f.body[1].magnitude]
          IN  /\ clock' = IF ActiveLocations = <<>> THEN clock ELSE now
              /\ HandlerStep("simulateEarthquake",
                             AffectedFrom([f EXCEPT !.todo = ActiveLocations,
                                                    !.earthquakeData = Some(earthquakeData)]))
    /\ CacheUnchanged /\ UNCHANGED earthquake_logs

\* await earthquakeService.logEarthquakeData(loc.id, earthquakeData, true): the third
\* argument is not a parameter of logEarthquakeData
SimulateEarthquakeLog ==
    /\ task["simulateEarthquake"].pc = "se_log"
    /\ LET f == task["simulateEarthquake"]
       IN  /\ earthquake_logs' \in {earthquake_logs,
                                    LogEarthquakeData(LocationId(f), f.earthquakeData[1])}
           /\ HandlerStep("simulateEarthquake", EnterCall(f, None, f.earthquakeData))
    /\ CacheUnchanged /\ UNCHANGED clock

\* await checkRulesAndAlert(loc, null, earthquakeData) returned
SimulateEarthquakeNext ==
    /\ task["simulateEarthquake"].pc = "ret"
    /\ LET f == task["simulateEarthquake"]
       IN  HandlerStep("simulateEarthquake",
                       AffectedFrom([IdleFrame EXCEPT !.todo = Tail(f.todo), !.body = f.body,
                                                      !.earthquakeData = f.earthquakeData]))
    /\ CacheUnchanged /\ UNCHANGED <<earthquake_logs, clock>>

\* the SELECT of a route rejects: res.status(500)
RouteThrows(t) ==
    /\ task[t].pc \in {"sw_location", "se_locations"}
    /\ HandlerStep(t, IdleFrame)
    /\ CacheUnchanged /\ UNCHANGED <<earthquake_logs, clock>>

---------------------------------------------------------------------------
(* Initial states *)

SettingKeys == {"weather_fetch_interval", "earthquake_fetch_interval"}

\* the store after the seed (or after the admin edited the rules), nothing run yet
InitStore(databases) ==
    /\ \E db \in databases :
          /\ alert_rules = db.rules
          /\ disasters = db.disasters
          /\ locations = db.locations
    /\ alerts = <<>>
    /\ earthquake_logs = {}
    /\ settings = [k \in SettingKeys |-> Absent]
    /\ cachedEarthquakes = None
    /\ earthquakeFetchTime = Undefined
    /\ clock = 0

\* the module is loaded and start() was not called
NotStarted == [t \in Tasks |-> IF t \in Loops THEN [IdleFrame EXCEPT !.pc = "off"] ELSE IdleFrame]

Quiet == \A t \in Tasks : task[t].pc \in Rest

LocationIds == {locations[k].id : k \in DOMAIN locations}

CallAction(t) ==
    \/ QueryRules(t)
    \/ EqDedup(t)
    \/ EqDeactivate(t)
    \/ EqInsert(t)
    \/ WExisting(t)
    \/ WDeactivate(t)
    \/ WInsert(t)
    \/ AutoSelect(t)
    \/ AutoDeactivate(t)
    \/ StoreThrows(t)

---------------------------------------------------------------------------
(* SeqSpec: checkRulesAndAlert (exported by scheduler.js) is called with   *)
(* the arguments its callers give it, (location, weatherData, null) or     *)
(* (location, null, earthquakeData), each call returning before the next.  *)

MaxEvents == 2     \* distinct point events

\* earthquakeData: the matcher's { id, magnitude, ... } or the simulated event
Events == [id : {<<"us", n>> : n \in 1..MaxEvents}, magnitude : Vals]

\* checkRulesAndAlert(location, weatherData, earthquakeData) is called
Evaluate(location, weatherData, earthquakeData) ==
    /\ task["checkRulesAndAlert"].pc = "idle"
    /\ HandlerStep("checkRulesAndAlert",
                   EnterCall([IdleFrame EXCEPT !.todo = <<location>>, !.before = alerts],
                             weatherData, earthquakeData))
    /\ CacheUnchanged /\ UNCHANGED <<earthquake_logs, clock>>

\* the event of the call that just returned is delivered again for the same
\* location (it is still in the feed at the next cycle)
Redeliver ==
    /\ task["checkRulesAndAlert"].pc = "ret"
    /\ task["checkRulesAndAlert"].weatherData = None
    /\ ~task["checkRulesAndAlert"].failed
    /\ LET f == task["checkRulesAndAlert"]
       IN  HandlerStep("checkRulesAndAlert",
                       [EnterCall(f, None, f.earthquakeData) EXCEPT !.redelivered = TRUE,
                                                                    !.before = alerts])
    /\ CacheUnchanged /\ UNCHANGED <<earthquake_logs, clock>>

\* the caller's await checkRulesAndAlert(...) resumes
Resume ==
    /\ task["checkRulesAndAlert"].pc = "ret"
    /\ HandlerStep("checkRulesAndAlert", IdleFrame)
    /\ CacheUnchanged /\ UNCHANGED <<earthquake_logs, clock>>

InitSeq == InitStore(Databases) /\ task = NotStarted

NextSeq ==
    \/ \E k \in DOMAIN locations, r \in Readings : Evaluate(locations[k], Some(r), None)
    \/ \E k \in DOMAIN locations, e \in Events : Evaluate(locations[k], None, Some(e))
    \/ CallAction("checkRulesAndAlert")
    \/ Redeliver
    \/ Resume

SeqSpec == InitSeq /\ [][NextSeq]_vars

---------------------------------------------------------------------------
(* weatherLoop and earthquakeLoop: run the cycle, read the interval, arm a timer *)

DefaultIntervalSecs(t) == IF t = "weatherLoop" THEN 300 ELSE 60

MinIntervalSecs == 30

SettingKey(t) ==
    IF t = "weatherLoop" THEN "weather_fetch_interval" ELSE "earthquake_fetch_interval"

Digits == <<"0", "1", "2", "3", "4", "5", "6", "7", "8", "9">>

IsDigit(c) == \E d \in DOMAIN Digits : Digits[d] = c

DigitValue(c) == (CHOOSE d \in DOMAIN Digits : Digits[d] = c) - 1

\* the digits of s from position k on, up to the first character that is not one
RECURSIVE ParseDigits(_, _, _)
ParseDigits(s, k, acc) ==
    IF k > Len(s) \/ ~IsDigit(s[k]) THEN acc
    ELSE ParseDigits(s, k + 1, acc * 10 + DigitValue(s[k]))

\* parseInt(s, 10) of a string without leading blanks: an optional sign, then
\* digits up to the first other character; NaN (None) without a digit
ParseInt(s) ==
    LET signed == Len(s) > 0 /\ s[1] \in {"-", "+"}
        start == IF signed THEN 2 ELSE 1
    IN  IF start > Len(s) \/ ~IsDigit(s[start]) THEN None
        ELSE Some((IF signed /\ s[1] = "-" THEN 0 - 1 ELSE 1) * ParseDigits(s, start, 0))

\* Math.max(30, intervalSecs) * 1000: NaN when intervalSecs is
IntervalMs(intervalSecs) ==
    IF intervalSecs = None THEN None ELSE Some(Max(MinIntervalSecs, intervalSecs[1]) * 1000)

\* setTimeout(fn, ms): a delay that is not a number of at least 1 is set to 1
TimerDelay(ms) == IF ms = None \/ ms[1] < 1 THEN 1 ELSE ms[1]

\* variant: the interval is the baked-in default, the row is not consulted
SettingValueBakedIn(rows, defaultValue) == Some(defaultValue)

\* getSetting(key, defaultValue) once its SELECT resolved with `rows`
SettingValue(rows, defaultValue) ==
    IF rows = Absent THEN Some(defaultValue) ELSE ParseInt(rows[1])

\* const intervalSecs = await getSetting(...): the SELECT resolves;
\* setTimeout(loop, Math.max(30, intervalSecs) * 1000)
GetSetting(t) ==
    /\ t \in Loops
    /\ task[t].pc = "setting"
    /\ LET intervalSecs == SettingValue(settings[SettingKey(t)], DefaultIntervalSecs(t))
       IN  HandlerStep(t, [IdleFrame EXCEPT !.pc = "timer",
                                            !.delay = TimerDelay(IntervalMs(intervalSecs))])
    /\ CacheUnchanged /\ UNCHANGED <<earthquake_logs, clock>>

\* variant: getSetting without its catch, the rejection ends the loop
GetSettingUncaught(t) ==
    /\ t \in Loops
    /\ task[t].pc = "setting"
    /\ HandlerStep(t, IdleFrame)
    /\ CacheUnchanged /\ UNCHANGED <<earthquake_logs, clock>>

\* the SELECT of getSetting rejects: its catch logs the error and returns defaultValue
GetSettingThrows(t) ==
    /\ t \in Loops
    /\ task[t].pc = "setting"
    /\ HandlerStep(t, [IdleFrame EXCEPT !.pc = "timer", !.failed = TRUE,
                          !.delay = TimerDelay(IntervalMs(Some(DefaultIntervalSecs(t))))])
    /\ CacheUnchanged /\ UNCHANGED <<earthquake_logs, clock>>

\* variant: the next timer is armed when the cycle begins, as setInterval would
BeginCycleRearming(t) ==
    [IdleFrame EXCEPT !.pc = IF t = "weatherLoop" THEN "w_locations" ELSE "e_fetch",
                      !.delay = DefaultIntervalSecs(t) * 1000]

\* the cycle of a loop up to its first await
BeginCycle(t) ==
    [IdleFrame EXCEPT !.pc = IF t = "weatherLoop" THEN "w_locations" ELSE "e_fetch"]

\* the timer of a loop fires: weatherLoop() or earthquakeLoop() runs again
TimerFires(t) ==
    /\ t \in Loops
    /\ task[t].delay > 0                      \* a timer of the loop is pending
    /\ Cardinality(InFlight) < MaxInFlight
    /\ HandlerStep(t, BeginCycle(t))
    /\ CacheUnchanged /\ UNCHANGED <<earthquake_logs, clock>>

\* start(): weatherLoop(); earthquakeLoop(); each runs up to its first await
Started == [t \in Tasks |-> IF t \in Loops THEN BeginCycle(t) ELSE IdleFrame]

\* the feeds fetchRecentEarthquakes returns: an event 111 km from Dhaka, or none
SmallFeeds == {<< Quake(1, MaxVal, 25) >>, <<>>}

\* the readings fetchWeatherData returns: every measurement 0 or MaxVal
SmallReadings ==
    {r \in Readings : \A field \in DOMAIN r : r[field] \in {0, MaxVal}}

\* one rule of each kind at one location: the first seeded flash flood tier and
\* an earthquake rule
FloodAndQuake ==
    [rules |-> << Rule(1, Global, FlashFlood, "rain_sum", ">=", 1, "Low", TRUE),
                  Rule(2, Global, Earthquake, "earthquake_magnitude", ">=", 1, "Low", TRUE) >>,
     disasters |-> AllActive,
     locations |-> << Dhaka >>]

\* PUT /settings accepts { key: value } unless the value parses to an integer
\* below 30 and the key includes 'fetch_interval' (both keys do)
PutSettingsAccepts(key, value) ==
    ~(ParseInt(value) # None /\ ParseInt(value)[1] < MinIntervalSecs)

\* the bodies an admin puts before the server starts: nothing, or one value for
\* each key
PutBodies ==
    {[k \in SettingKeys |-> Absent],
     [k \in SettingKeys |-> IF k = "weather_fetch_interval" THEN << <<"4", "5">> >>
                            ELSE << <<"s", "o", "o", "n">> >>],
     [k \in SettingKeys |-> << <<"5">> >>]}

\* the settings rows after such a body was handled: the rows of a body whose
\* values are all accepted
StoredSettings ==
    {body \in PutBodies :
        \A k \in SettingKeys : body[k] = Absent \/ PutSettingsAccepts(k, body[k][1])}

\* a step of loop t
LoopStep(t) ==
    \/ WeatherLocations(t)
    \/ WeatherFetch(t, SmallReadings)
    \/ WeatherLog(t)
    \/ WeatherNext(t)
    \/ EarthquakeFetch(t, SmallFeeds)
    \/ EarthquakeLocations(t)
    \/ EarthquakeLog(t)
    \/ EarthquakeNext(t)
    \/ CycleThrows(t)
    \/ CallAction(t)
    \/ GetSetting(t)
    \/ GetSettingThrows(t)
    \/ TimerFires(t)

---------------------------------------------------------------------------
(* LoopSpec: the server after start(), the two loops alone.  The event loop *)
(* runs every callback that is ready and every store or HTTP call settles,  *)
(* so each loop that can take a step eventually takes one.                  *)

InitLoop ==
    /\ \E db \in {FloodAndQuake} :
          /\ alert_rules = db.rules
          /\ disasters = db.disasters
          /\ locations = db.locations
    /\ alerts = <<>>
    /\ earthquake_logs = {}
    /\ settings \in StoredSettings
    /\ cachedEarthquakes = None
    /\ earthquakeFetchTime = Undefined
    /\ clock = 0
    /\ task = Started

NextLoop == \E t \in Loops : LoopStep(t)

LoopSpec ==
    /\ InitLoop
    /\ [][NextLoop]_vars
    /\ \A t \in Loops : WF_vars(LoopStep(t))

---------------------------------------------------------------------------
(* Spec: the server after start(), with an admin posting /simulate-weather. *)
(* The handlers interleave at their awaits.                                 *)

\* the bodies an admin posts: every field missing, 0 or MaxVal
SmallBodies ==
    {b \in WeatherBodies : \A field \in DOMAIN b : b[field] \in {Undefined, 0, MaxVal}}

RouteStep ==
    \/ \E k \in DOMAIN locations, body \in SmallBodies : SimulateWeather(locations[k].id, body)
    \/ SimulateWeatherLocation
    \/ SimulateWeatherRespond
    \/ RouteThrows("simulateWeather")
    \/ CallAction("simulateWeather")

Init == InitLoop

Next ==
    \/ \E t \in Loops : LoopStep(t)
    \/ RouteStep

Spec == Init /\ [][Next]_vars

---------------------------------------------------------------------------
(* CycleSpec: the exported cycles runCheck and runEqCheck, each run to its  *)
(* end before the next one starts, over two active locations.               *)

\* two locations; one rule of each kind, bound to the second location
TwoLocations ==
    [rules |-> << Rule(1, Rangpur.id, FlashFlood, "rain_sum", ">=", 1, "Low", TRUE),
                  Rule(2, Rangpur.id, Earthquake, "earthquake_magnitude", ">=", 1, "Low", TRUE) >>,
     disasters |-> AllActive,
     locations |-> << Dhaka, Rangpur >>]

\* the feeds of the cycles: an event 111 km from both locations, a feature
\* without geometry, or nothing
CycleFeeds == {<< Quake(1, MaxVal, 25) >>, << Unlocated(2, MaxVal) >>, <<>>}

InitCycle == InitStore({TwoLocations}) /\ task = NotStarted

NextCycle ==
    \/ Quiet /\ RunCheck
    \/ Quiet /\ RunEqCheck
    \/ WeatherLocations("runCheck")
    \/ WeatherFetch("runCheck", SmallReadings)
    \/ WeatherLog("runCheck")
    \/ WeatherNext("runCheck")
    \/ EarthquakeFetch("runEqCheck", CycleFeeds)
    \/ EarthquakeLocations("runEqCheck")
    \/ EarthquakeLog("runEqCheck")
    \/ EarthquakeNext("runEqCheck")
    \/ \E t \in Cycles : CycleThrows(t)
    \/ \E t \in Cycles : CallAction(t)

CycleSpec == InitCycle /\ [][NextCycle]_vars

---------------------------------------------------------------------------
(* MatchSpec: checkEarthquakesNearLocation (exported by                     *)
(* earthquakeService.js) is called with a feed and the latitude of a        *)
(* location.                                                                *)

MaxFeed == 3       \* features of a feed

\* latitudes of epicentres: from Dhaka 0, 333, 444 and 556 km, from Rangpur
\* 222, 111, 222 and 333 km
Latitudes == {24, 27, 28, 29}

\* the feeds of up to MaxFeed located features; properties.mag is a number or null
Feeds ==
    UNION {[1..n -> [mag : Vals \cup {Undefined}, lat : Latitudes]] : n \in 0..MaxFeed}

\* checkEarthquakesNearLocation(earthquakes, location.latitude, ...) runs and returns
CallMatcher ==
    /\ task["checkEarthquakesNearLocation"].pc = "idle"
    /\ \E shape \in Feeds, k \in DOMAIN locations :
          LET earthquakes == [n \in DOMAIN shape |-> Quake(n, shape[n].mag, shape[n].lat)]
          IN  HandlerStep("checkEarthquakesNearLocation",
                  [IdleFrame EXCEPT
                      !.pc = "ret", !.todo = <<locations[k]>>, !.earthquakes = earthquakes,
                      !.earthquakeData =
                          CheckEarthquakesNearLocation(earthquakes, locations[k].latitude)])
    /\ CacheUnchanged /\ UNCHANGED <<earthquake_logs, clock>>

\* the caller goes on
MatcherReturns ==
    /\ task["checkEarthquakesNearLocation"].pc = "ret"
    /\ HandlerStep("checkEarthquakesNearLocation", IdleFrame)
    /\ CacheUnchanged /\ UNCHANGED <<earthquake_logs, clock>>

InitMatch == InitStore({TwoLocations}) /\ task = NotStarted

NextMatch == CallMatcher \/ MatcherReturns

MatchSpec == InitMatch /\ [][NextMatch]_vars

---------------------------------------------------------------------------
(* LogSpec: the writers of earthquake_logs, the exported cycle runEqCheck   *)
(* and the admin route POST /simulate-earthquake, each run to its end       *)
(* before the next one starts.                                              *)

\* the feeds of the cycle: an event 111 km from both locations, the same event
\* with its magnitude revised, or nothing
LogFeeds == {<< Quake(1, MaxVal, 25) >>, << Quake(1, 1, 25) >>, <<>>}

\* the epicentre an admin simulates: 444 km from Rangpur, 667 km from Dhaka
Epicentres == {30}

\* the steps checkRulesAndAlert can take when weatherData is null
PointEventCallAction(t) ==
    \/ QueryRules(t)
    \/ EqDedup(t)
    \/ EqDeactivate(t)
    \/ EqInsert(t)
    \/ StoreThrows(t)

InitLog == InitStore({TwoLocations}) /\ task = NotStarted

NextLog ==
    \/ Quiet /\ RunEqCheck
    \/ Quiet /\ \E latitude \in Epicentres, magnitude \in {1, MaxVal} :
                   SimulateEarthquake(latitude, magnitude)
    \/ EarthquakeFetch("runEqCheck", LogFeeds)
    \/ EarthquakeLocations("runEqCheck")
    \/ EarthquakeLog("runEqCheck")
    \/ EarthquakeNext("runEqCheck")
    \/ CycleThrows("runEqCheck")
    \/ SimulateEarthquakeLocations
    \/ SimulateEarthquakeLog
    \/ SimulateEarthquakeNext
    \/ RouteThrows("simulateEarthquake")
    \/ \E t \in {"runEqCheck", "simulateEarthquake"} : PointEventCallAction(t)

LogSpec == InitLog /\ [][NextLog]_vars

---------------------------------------------------------------------------
(* FilterSpec: calls of checkRulesAndAlert with weather data, one after     *)
(* another, while an admin toggles a rule and a disaster between the calls. *)

\* a global rule, a global rule of a second disaster, a rule bound to Rangpur
Toggled ==
    [rules |-> << Rule(1, Global, FlashFlood, "rain_sum", ">=", 1, "Low", TRUE),
                  Rule(2, Global, Heatwave, "rain_sum", ">=", 2, "High", TRUE),
                  Rule(3, Rangpur.id, ColdWave, "rain_sum", ">=", 1, "Critical", TRUE) >>,
     disasters |-> AllActive,
     locations |-> << Dhaka, Rangpur >>]

\* PUT /disasters/:id/toggle: UPDATE disasters SET is_active = NOT is_active WHERE id = ?
ToggleDisaster(id) ==
    /\ Quiet
    /\ disasters' = [disasters EXCEPT ![id] = ~disasters[id]]
    /\ CacheUnchanged
    /\ UNCHANGED <<alert_rules, locations, settings, alerts, earthquake_logs, clock, task>>

\* PUT /rules/:id/toggle: UPDATE alert_rules SET is_active = NOT is_active WHERE id = ?
ToggleRule(id) ==
    /\ Quiet
    /\ alert_rules' = [k \in DOMAIN alert_rules |->
                          IF alert_rules[k].id = id
                          THEN [alert_rules[k] EXCEPT !.is_active = ~alert_rules[k].is_active]
                          ELSE alert_rules[k]]
    /\ CacheUnchanged
    /\ UNCHANGED <<disasters, locations, settings, alerts, earthquake_logs, clock, task>>

\* the steps checkRulesAndAlert can take when only weather rules are stored
WeatherCallAction(t) ==
    \/ QueryRules(t)
    \/ WExisting(t)
    \/ WDeactivate(t)
    \/ WInsert(t)
    \/ AutoSelect(t)
    \/ AutoDeactivate(t)
    \/ StoreThrows(t)

InitFilter == InitStore({Toggled}) /\ task = NotStarted

NextFilter ==
    \/ \E k \in DOMAIN locations, r \in Readings : Evaluate(locations[k], Some(r), None)
    \/ WeatherCallAction("checkRulesAndAlert")
    \/ Resume
    \/ ToggleDisaster(Heatwave)
    \/ ToggleRule(1)

FilterSpec == InitFilter /\ [][NextFilter]_vars

---------------------------------------------------------------------------
(* SettingsSpec: the two loops after start() while an admin stores interval *)
(* overrides with PUT /settings.  No rule is stored (DELETE /rules/all), so  *)
(* a call of checkRulesAndAlert is its rule query alone.                    *)

LocationsOnly ==
    [rules |-> <<>>, disasters |-> AllActive, locations |-> << Dhaka >>]

\* the values an admin puts: "45", "90", "soon" and "5"
PutValues == {<<"4", "5">>, <<"9", "0">>, <<"s", "o", "o", "n">>, <<"5">>}

\* PUT /settings with the body { key: value }: INSERT INTO settings ... ON DUPLICATE
\* KEY UPDATE setting_value = ? once the value passed the validation
PutSettings(key, value) ==
    /\ PutSettingsAccepts(key, value)
    /\ settings[key] # << value >>
    /\ settings' = [settings EXCEPT ![key] = << value >>]
    /\ CacheUnchanged
    /\ UNCHANGED <<alert_rules, disasters, locations, alerts, earthquake_logs, clock, task>>

\* a step of loop t when no rule is stored
BareLoopStep(t) ==
    \/ WeatherLocations(t)
    \/ WeatherFetch(t, SmallReadings)
    \/ WeatherLog(t)
    \/ WeatherNext(t)
    \/ EarthquakeFetch(t, SmallFeeds)
    \/ EarthquakeLocations(t)
    \/ EarthquakeLog(t)
    \/ EarthquakeNext(t)
    \/ CycleThrows(t)
    \/ QueryRules(t)
    \/ StoreThrows(t)
    \/ GetSetting(t)
    \/ GetSettingThrows(t)
    \/ TimerFires(t)

InitSettings == InitStore({LocationsOnly}) /\ task = Started

NextSettings ==
    \/ \E t \in Loops : BareLoopStep(t)
    \/ \E key \in SettingKeys, value \in PutValues : PutSettings(key, value)

SettingsSpec == InitSettings /\ [][NextSettings]_vars

---------------------------------------------------------------------------
(* RaceSpec: the earthquake loop after start() and runEqCheck called on     *)
(* demand while the loop runs; the two interleave at every await.  The      *)
(* steps of the weather loop write nothing these two read and are left out. *)

\* a step of the earthquake cycle run by t
PointEventCycleStep(t) ==
    \/ EarthquakeFetch(t, SmallFeeds)
    \/ EarthquakeLocations(t)
    \/ EarthquakeLog(t)
    \/ EarthquakeNext(t)
    \/ CycleThrows(t)
    \/ PointEventCallAction(t)

InitRace == InitStore({FloodAndQuake}) /\ task = Started

NextRace ==
    \/ RunEqCheck
    \/ \E t \in EarthquakeCycles : PointEventCycleStep(t)
    \/ GetSetting("earthquakeLoop")
    \/ GetSettingThrows("earthquakeLoop")
    \/ TimerFires("earthquakeLoop")

RaceSpec == InitRace /\ [][NextRace]_vars

---------------------------------------------------------------------------
(* Properties of the alert lifecycle *)

Call == task["checkRulesAndAlert"]

RowsOf(disasterId, locationId) ==
    {k \in DOMAIN alerts : /\ alerts[k].disaster_id = disasterId
                           /\ alerts[k].location_id = locationId}

\* the step is taken by handler t inside checkRulesAndAlert
StepOf(t) == InCall(task[t]) /\ task'[t] # task[t]

\* the call of handler t returned without reaching its catch
Completed(f) == f.pc = "ret" /\ ~f.failed

\* C1: when checkRulesAndAlert is invoked one call after another, every
\* (disaster, location) pair has at most one alert row with is_active = TRUE,
\* in every state, also in the middle of a call and after a failed store call.
AtMostOneActive ==
    \A d \in DisasterIds, l \in LocationIds : Cardinality(SelectActive(d, l)) <= 1

\* C1 witness: a pair whose earlier alert has been superseded by a newer one.
SupersededAlert ==
    \E d \in DisasterIds, l \in LocationIds :
        /\ Cardinality(RowsOf(d, l)) >= 2
        /\ Cardinality(SelectActive(d, l)) = 1

\* C3: no location has two alert rows with the same non-null external_id.
UniqueExternalId ==
    \A j, k \in DOMAIN alerts :
        (/\ j # k
         /\ alerts[j].external_id # NoId
         /\ alerts[j].location_id = alerts[k].location_id)
        => alerts[j].external_id # alerts[k].external_id

\* C3 witness: an event was delivered again to a location that already has
\* alerts of two different events, one of them the delivered one.
RedeliveredAmongEvents ==
    /\ Completed(Call) /\ Call.redelivered /\ Call.fired # {}
    /\ \E j, k \in DOMAIN alerts :
        /\ alerts[j].location_id = LocationId(Call)
        /\ alerts[k].location_id = LocationId(Call)
        /\ alerts[j].external_id = Call.earthquakeData[1].id
        /\ alerts[k].external_id # NoId
        /\ alerts[k].external_id # alerts[j].external_id

\* C4: a second invocation with the same location and the same point event,
\* following a first one that returned without a store error, changes no row
\* of the alert table and adds none.
RedeliveryChangesNothing ==
    [][(Call.redelivered /\ StepOf("checkRulesAndAlert")) => alerts' = alerts]_vars

\* C4 witness: the second invocation returned, a rule triggered in it, and the
\* alert of the first invocation is still the active one.
RedeliveredAndSkipped ==
    /\ Completed(Call) /\ Call.redelivered /\ Call.fired # {}
    /\ \E k \in DOMAIN alerts :
        /\ alerts[k].location_id = LocationId(Call)
        /\ alerts[k].external_id = Call.earthquakeData[1].id
        /\ alerts[k].is_active

\* the disaster has a continuous-signal rule among those loaded for the location
HasWeatherRule(disasterId, locationId) ==
    \E k \in DOMAIN LoadRules(locationId) :
        /\ LoadRules(locationId)[k].disaster_id = disasterId
        /\ RuleTarget(LoadRules(locationId)[k].weather_condition) = "weather"

\* C5: in a call without continuous-signal data (weatherData null), no active
\* alert of a disaster that has continuous-signal rules is deactivated at the
\* call's location.
NoClearWithoutWeatherData ==
    [][\A t \in Tasks :
          (StepOf(t) /\ task[t].weatherData = None)
          => \A k \in DOMAIN alerts :
                (/\ alerts[k].is_active
                 /\ alerts[k].location_id = LocationId(task[t])
                 /\ HasWeatherRule(alerts[k].disaster_id, LocationId(task[t])))
                => alerts'[k].is_active]_vars

\* C6: an active alert created from a point event is deactivated only by the
\* step that supersedes it with a new point event triggering for its
\* (disaster, location) pair; no step of a continuous-signal call, its
\* auto-clear pass included, deactivates it.
PointEventAlertStaysActive ==
    [][\A t \in Tasks :
          StepOf(t)
          => \A k \in DOMAIN alerts :
                (/\ alerts[k].is_active
                 /\ alerts[k].external_id # NoId
                 /\ ~alerts'[k].is_active)
                => /\ task[t].pc = "eq_deactivate"
                   /\ CurrentRule(task[t]).disaster_id = alerts[k].disaster_id
                   /\ LocationId(task[t]) = alerts[k].location_id]_vars

\* the positions of the rules of a disaster that triggered in the call
FiredOf(f, disasterId) == {k \in f.fired : f.rules[k].disaster_id = disasterId}

\* the disasters the auto-clear of the call has to clear: at least one weather
\* rule loaded, no rule triggered
Cleared(f) ==
    {d \in DisasterIds :
        /\ \E k \in DOMAIN f.rules : /\ f.rules[k].disaster_id = d
                                     /\ RuleTarget(f.rules[k].weather_condition) = "weather"
        /\ FiredOf(f, d) = {}}

AscendingTiersOf(f, disasterId) ==
    \A j, k \in DOMAIN f.rules :
        (f.rules[j].disaster_id = disasterId /\ f.rules[k].disaster_id = disasterId)
        => /\ RuleTarget(f.rules[j].weather_condition) = "weather"
           /\ f.rules[j].weather_condition = f.rules[k].weather_condition
           /\ f.rules[j].operator = f.rules[k].operator
           /\ (j < k => f.rules[j].threshold_value < f.rules[k].threshold_value)

OperatorOf(f, disasterId) ==
    f.rules[CHOOSE k \in DOMAIN f.rules : f.rules[k].disaster_id = disasterId].operator

\* the highest rank among the rules of the disaster that triggered
HighestRank(f, disasterId) ==
    Rank(f.rules[CHOOSE k \in FiredOf(f, disasterId) :
                    \A j \in FiredOf(f, disasterId) :
                        Rank(f.rules[j].severity_level) <= Rank(f.rules[k].severity_level)
                ].severity_level)

\* the rule with the largest threshold among those of the disaster that triggered
LargestThreshold(f, disasterId) ==
    f.rules[CHOOSE k \in FiredOf(f, disasterId) :
               \A j \in FiredOf(f, disasterId) :
                   f.rules[j].threshold_value <= f.rules[k].threshold_value]

\* a call with weather data returned without a store error and tiers of the
\* disaster, iterated in ascending threshold order, triggered in it
TiersFired(f, disasterId) ==
    /\ Completed(f) /\ f.weatherData # None
    /\ FiredOf(f, disasterId) # {}
    /\ AscendingTiersOf(f, disasterId)

ActiveSeverities(f, disasterId) ==
    {alerts[k].severity : k \in SelectActive(disasterId, LocationId(f))}

\* C8 as stated: with the tiers of a disaster iterated in ascending threshold
\* order, for every operator the alert left active carries the highest severity
\* among the rules that triggered.
HighestSeverityLeftActive ==
    \A t \in Tasks, d \in DisasterIds :
        TiersFired(task[t], d)
        => /\ ActiveSeverities(task[t], d) # {}
           /\ \A sev \in ActiveSeverities(task[t], d) : Rank(sev) = HighestRank(task[t], d)

\* C8 amended: the alert left active carries the severity of the triggered rule
\* with the largest threshold; that is the highest severity among the rules that
\* triggered for the operators > and >=.
LastTierLeftActive ==
    \A t \in Tasks, d \in DisasterIds :
        TiersFired(task[t], d)
        => /\ ActiveSeverities(task[t], d) = {LargestThreshold(task[t], d).severity_level}
           /\ OperatorOf(task[t], d) \in {">", ">="}
              => \A sev \in ActiveSeverities(task[t], d) : Rank(sev) = HighestRank(task[t], d)

\* C8 witness: two tiers with operator > or >= triggered in one call.
TwoTiersFired ==
    \E d \in DisasterIds :
        /\ TiersFired(Call, d)
        /\ Cardinality(FiredOf(Call, d)) = 2
        /\ OperatorOf(Call, d) \in {">", ">="}

\* v op T
Holds(operator, v, threshold) ==
    CASE operator = ">" -> v > threshold
      [] operator = ">=" -> v > threshold \/ v = threshold
      [] operator = "<" -> v < threshold
      [] operator = "<=" -> v < threshold \/ v = threshold

\* the value the rule at position k compares, -1 when the data is absent
ValueAt(f, k) == CurrentValue(f.rules[k].weather_condition, f.weatherData, f.earthquakeData)

\* the positions of the rule loop the call has evaluated
Evaluated(f) == {k \in DOMAIN f.rules : k <= f.ruleIndex}

\* C9: a rule triggers exactly when its current value v is present and v op T
\* holds for its operator and threshold T; with >= a value equal to T triggers
\* and a value below T does not.
TriggersExactlyWhenHolds ==
    \A t \in Tasks : \A k \in Evaluated(task[t]) :
        /\ k \in task[t].fired
           <=> /\ ValueAt(task[t], k) # Undefined
               /\ Holds(task[t].rules[k].operator, ValueAt(task[t], k),
                        task[t].rules[k].threshold_value)
        /\ (task[t].rules[k].operator = ">=" /\ ValueAt(task[t], k) # Undefined)
           => /\ ValueAt(task[t], k) = task[t].rules[k].threshold_value => k \in task[t].fired
              /\ ValueAt(task[t], k) < task[t].rules[k].threshold_value => k \notin task[t].fired

\* C9 witness: a >= rule triggered on a value equal to its threshold.
EqualToThresholdFired ==
    \E k \in Call.fired :
        /\ Call.rules[k].operator = ">="
        /\ ValueAt(Call, k) = Call.rules[k].threshold_value

AtMostOneActiveInterleaved ==
    \A l \in LocationIds, d \in DisasterIds :
        \A j, k \in SelectActive(d, l) : j = k

\* C11: for every value stored under a poll-interval key, the delay a loop
\* arms its timer with is at least the floor of 30 seconds.
DelayAtLeastFloor ==
    \A t \in Loops :
        task[t].pc = "timer" => task[t].delay >= MinIntervalSecs * 1000

\* C12: an iteration of a loop begins only when the iteration before it, its
\* check and its settings read, has finished and armed the timer, whatever the
\* other loop is doing.
OneIterationAtATime ==
    [][\A t \in Loops :
          (task'[t] # task[t] /\ task'[t] = BeginCycle(t)) => task[t].pc = "timer"]_vars

\* C12 witness: the weather loop begins a later iteration (an alert of an
\* earlier one exists) while the earthquake loop is inside checkRulesAndAlert.
LaterIterationBegins ==
    /\ task["weatherLoop"] = BeginCycle("weatherLoop")
    /\ \E k \in DOMAIN alerts : alerts[k].external_id = NoId
    /\ InCall(task["earthquakeLoop"])

\* the weather cycle of handler t reads cachedEarthquakes in this step
ReadsCache(t) == task[t].pc = "w_fetch" /\ task'[t] # task[t]

\* C13 as stated: every read of the cache by the weather loop finds it written
\* by the earthquake loop: no weather iteration observes it unpopulated.
CacheWrittenBeforeRead ==
    [][ReadsCache("weatherLoop") => cachedEarthquakes # None]_vars

\* C13 amended: a weather iteration can read the cache before the first fetch
\* of the earthquake loop has settled and then goes on without point-event
\* data; a written cache is never unpopulated again, and a read of a written
\* cache takes the event the matcher finds in it.
CacheReadIsGuarded ==
    [][/\ cachedEarthquakes # None => cachedEarthquakes' # None
       /\ (ReadsCache("weatherLoop") /\ task'["weatherLoop"].pc = "w_log")
          => task'["weatherLoop"].earthquakeData =
                IF cachedEarthquakes = None THEN None
                ELSE CheckEarthquakesNearLocation(
                         cachedEarthquakes[1], Head(task["weatherLoop"].todo).latitude)]_vars

\* C13 witness: the weather loop has read a written cache and found an event.
CachedEventRead ==
    /\ task["weatherLoop"].pc = "w_log"
    /\ cachedEarthquakes # None
    /\ task["weatherLoop"].earthquakeData # None

\* C14: when a cycle is over, no active location was left out of it: a failure
\* while one location is processed (fetch, matcher or store) leaves no location
\* of the for loop unvisited.
NoLocationLeftOut ==
    \A t \in Loops \cup Cycles :
        task[t].pc \in {"idle", "setting"} => task[t].todo = <<>>

Matched == task["checkEarthquakesNearLocation"]

\* the positions of the features of the feed within RadiusKm of the target
WithinRadius(f) ==
    {k \in DOMAIN f.earthquakes :
        GetDistanceFromLatLonInKm(Head(f.todo).latitude, f.earthquakes[k].lat) <= RadiusKm}

\* C15: the matcher returns none when no feature of the feed lies within
\* radiusKm of the target; otherwise it returns a feature within radiusKm whose
\* magnitude is greater than or equal to that of every feature within radiusKm
\* (a null magnitude compares as 0).
MaxMagnitudeWithinRadius ==
    Matched.pc = "ret"
    => IF WithinRadius(Matched) = {} THEN Matched.earthquakeData = None
       ELSE /\ Matched.earthquakeData # None
            /\ \E k \in WithinRadius(Matched) :
                  /\ Matched.earthquakes[k].id = Matched.earthquakeData[1].id
                  /\ Matched.earthquakes[k].mag = Matched.earthquakeData[1].magnitude
                  /\ \A j \in WithinRadius(Matched) :
                        ToNumber(Matched.earthquakes[j].mag) <= ToNumber(Matched.earthquakes[k].mag)

\* C15 witness: the feature returned is not the closest one within the radius,
\* and a feature outside the radius has a greater magnitude.
StrongerThanCloser ==
    /\ Matched.pc = "ret" /\ Matched.earthquakeData # None
    /\ \E k, j \in WithinRadius(Matched) :
          /\ Matched.earthquakes[k].id = Matched.earthquakeData[1].id
          /\ GetDistanceFromLatLonInKm(Head(Matched.todo).latitude, Matched.earthquakes[j].lat)
               < GetDistanceFromLatLonInKm(Head(Matched.todo).latitude, Matched.earthquakes[k].lat)
    /\ \E i \in DOMAIN Matched.earthquakes \ WithinRadius(Matched) :
          ToNumber(Matched.earthquakes[i].mag) > ToNumber(Matched.earthquakeData[1].magnitude)

\* handlers that write earthquake_logs
LogWriters == EarthquakeCycles \cup {"simulateEarthquake"}

\* handler t is at its call of logEarthquakeData
AtLog(t) == task[t].pc \in {"e_log", "se_log"}

\* the log holds a row for the pair the frame f is about
Recorded(f) ==
    \E row \in earthquake_logs :
        row.location_id = LocationId(f) /\ row.usgs_id = f.earthquakeData[1].id

\* C16: after any sequence of log writes by cycles and simulations the log holds at
\* most one row per (location, external id); logging a pair that is already recorded
\* adds no row and the handler goes on to evaluate the rules as after any other write
OneRowPerLocationAndEvent ==
    [][/\ \A r1, r2 \in earthquake_logs' :
              (r1.location_id = r2.location_id /\ r1.usgs_id = r2.usgs_id) => r1 = r2
       /\ \A t \in LogWriters :
              (AtLog(t) /\ Recorded(task[t]) /\ task'[t] # task[t])
                  => /\ earthquake_logs' = earthquake_logs
                     /\ task'[t].pc = "rules"]_vars

\* witness of C16: an event was logged again for a location with another magnitude
\* than the recorded one, and the handler is past the write
LoggedAgainRevised ==
    \E t \in LogWriters :
        /\ task[t].pc = "rules"
        /\ \E row \in earthquake_logs :
              /\ row.location_id = LocationId(task[t])
              /\ row.usgs_id = task[t].earthquakeData[1].id
              /\ row.magnitude # task[t].earthquakeData[1].magnitude

\* C17: a row of the log has its manual flag set exactly when the simulation route
\* wrote it (its external id is a test-eq id)
ManualFlagTellsSimulated ==
    \A row \in earthquake_logs : row.is_manual <=> (row.usgs_id[1] = "test-eq")

\* C18: no step of the engine deletes an alert row or turns an inactive alert back
\* to active: the rows of a state are rows of the next one, changed at most in
\* their active flag, and only from active to inactive
AlertsOnlyGrowAndDeactivate ==
    [][/\ Len(alerts') >= Len(alerts)
       /\ \A k \in DOMAIN alerts :
              /\ [alerts'[k] EXCEPT !.is_active = alerts[k].is_active] = alerts[k]
              /\ alerts'[k].is_active => alerts[k].is_active]_vars

\* witness of C18: the table has grown to three rows and the two older ones of a
\* (disaster, location) pair have been deactivated one after the other
TwoDeactivatedOneActive ==
    \E d \in DisasterIds, l \in LocationIds :
        /\ Cardinality(RowsOf(d, l)) >= 3
        /\ Cardinality(RowsOf(d, l) \ SelectActive(d, l)) >= 2
        /\ SelectActive(d, l) # {}

\* the rule is active, its disaster is active and it is global or bound to the location
Eligible(rule, locationId) ==
    /\ rule.is_active
    /\ disasters[rule.disaster_id]
    /\ rule.location_id \in {locationId, Global}

EligibleRules(locationId) ==
    {alert_rules[k] : k \in {j \in DOMAIN alert_rules : Eligible(alert_rules[j], locationId)}}

\* C19: in a call for a location, a row is inserted only for that location and
\* from an eligible rule, a row is deactivated only at that location and for the
\* disaster of an eligible rule, and the rows of an inactive disaster stay as they are
IneligibleRulesHaveNoEffect ==
    [][StepOf("checkRulesAndAlert") =>
          /\ \A k \in DOMAIN alerts' \ DOMAIN alerts :
                /\ alerts'[k].location_id = LocationId(Call)
                /\ \E rule \in EligibleRules(LocationId(Call)) :
                      /\ rule.disaster_id = alerts'[k].disaster_id
                      /\ rule.severity_level = alerts'[k].severity
          /\ \A k \in DOMAIN alerts :
                alerts'[k] # alerts[k]
                    => /\ alerts[k].location_id = LocationId(Call)
                       /\ \E rule \in EligibleRules(LocationId(Call)) :
                             rule.disaster_id = alerts[k].disaster_id
          /\ \A k \in DOMAIN alerts :
                ~disasters[alerts[k].disaster_id] => alerts'[k] = alerts[k]]_vars

\* witness of C19: a call with weather data returned; a rule that is not eligible at
\* its location has its condition met by the reading, and the alert of an inactive
\* disaster at the location is still active
IneligibleRuleMetAndIgnored ==
    /\ Completed(Call) /\ Call.weatherData # None
    /\ \E k \in DOMAIN alert_rules :
          /\ ~Eligible(alert_rules[k], LocationId(Call))
          /\ ~disasters[alert_rules[k].disaster_id]
          /\ RuleTriggers(alert_rules[k], Call.weatherData, Call.earthquakeData)
          /\ SelectActive(alert_rules[k].disaster_id, LocationId(Call)) # {}
    /\ \E k \in DOMAIN alert_rules :
          /\ alert_rules[k].location_id \notin {LocationId(Call), Global}
          /\ RuleTriggers(alert_rules[k], Call.weatherData, Call.earthquakeData)

\* the step leaves checkRulesAndAlert through its catch
Caught == task'["checkRulesAndAlert"].failed

\* C20: for a triggering weather rule the call deactivates every active alert of the
\* rule's (disaster, location), whatever its severity, and then appends exactly one
\* active row of the rule's severity; no other row changes and the deactivated rows
\* change only in their active flag
TriggeringRuleReplacesAlert ==
    [][(StepOf("checkRulesAndAlert") /\ ~Caught) =>
          LET d == CurrentRule(Call).disaster_id
              l == LocationId(Call)
          IN  /\ Call.pc = "w_existing" =>
                    /\ alerts' = alerts
                    /\ task'["checkRulesAndAlert"].pc =
                           IF SelectActive(d, l) # {} THEN "w_deactivate" ELSE "w_insert"
              /\ Call.pc = "w_deactivate" =>
                    /\ alerts' = [k \in DOMAIN alerts |->
                                     IF k \in RowsOf(d, l)
                                     THEN [alerts[k] EXCEPT !.is_active = FALSE]
                                     ELSE alerts[k]]
                    /\ task'["checkRulesAndAlert"].pc = "w_insert"
              /\ Call.pc = "w_insert" =>
                    /\ SelectActive(d, l) = {}
                    /\ Len(alerts') = Len(alerts) + 1
                    /\ SubSeq(alerts', 1, Len(alerts)) = alerts
                    /\ alerts'[Len(alerts')].is_active
                    /\ alerts'[Len(alerts')].disaster_id = d
                    /\ alerts'[Len(alerts')].location_id = l
                    /\ alerts'[Len(alerts')].severity = CurrentRule(Call).severity_level]_vars

\* witness of C20: a call with weather data returned in which a rule triggered for a
\* pair whose earlier alert had the same severity; the earlier row is kept, inactive,
\* and the new row is the active one
SameSeverityReplaced ==
    /\ Completed(Call) /\ Call.weatherData # None
    /\ \E j, k \in DOMAIN alerts :
          /\ j < k
          /\ alerts[k].disaster_id \in Call.triggeredDisasterIds
          /\ alerts[j].disaster_id = alerts[k].disaster_id
          /\ alerts[j].location_id = LocationId(Call)
          /\ alerts[k].location_id = LocationId(Call)
          /\ alerts[j].severity = alerts[k].severity
          /\ ~alerts[j].is_active
          /\ alerts[k].is_active
          /\ SelectActive(alerts[k].disaster_id, LocationId(Call)) = {k}

\* the rows of (disaster, location of the call) a call that returned has inserted:
\* one for each rule of the disaster that triggered, the newest rows of the pair
InsertedBy(f, disasterId) ==
    {k \in RowsOf(disasterId, LocationId(f)) :
        Cardinality({j \in RowsOf(disasterId, LocationId(f)) : j > k})
            < Cardinality(FiredOf(f, disasterId))}

\* the last rule of the disaster that triggered, in the order of the rule loop
LastFired(f, disasterId) ==
    CHOOSE k \in FiredOf(f, disasterId) : \A j \in FiredOf(f, disasterId) : j <= k

\* C21: when rules of a disaster triggered in a call with weather data that returned,
\* the only active alert of the pair is the row inserted for the last rule that
\* triggered, and the rows inserted for the earlier ones are inactive
LastTriggeringRuleLeftActive ==
    \A d \in DisasterIds :
        (Completed(Call) /\ Call.weatherData # None /\ FiredOf(Call, d) # {})
        => LET inserted == InsertedBy(Call, d)
               newest == CHOOSE k \in inserted : \A j \in inserted : j <= k
           IN  /\ Cardinality(inserted) = Cardinality(FiredOf(Call, d))
               /\ SelectActive(d, LocationId(Call)) = {newest}
               /\ alerts[newest].severity = Call.rules[LastFired(Call, d)].severity_level
               /\ \A k \in inserted \ {newest} : ~alerts[k].is_active

\* witness of C21: two rules of a disaster triggered in a call that returned, the
\* row of the first one is inactive and of a higher severity than the active one
EarlierHigherTierInactive ==
    /\ Completed(Call) /\ Call.weatherData # None
    /\ \E d \in DisasterIds :
          /\ Cardinality(FiredOf(Call, d)) = 2
          /\ \E j, k \in InsertedBy(Call, d) :
                /\ j < k
                /\ ~alerts[j].is_active /\ alerts[k].is_active
                /\ Rank(alerts[j].severity) > Rank(alerts[k].severity)

\* C22: when a rule triggered by a point event is processed and no alert of the
\* location has the event's external id, every active alert of the rule's
\* (disaster, location) is deactivated and one row is appended; after the insert
\* that row is the only active alert of the pair, it carries the event's external id
\* and the rule's severity whatever the severity of the superseded alert, and no
\* later step of the call changes the table
NewPointEventSupersedes ==
    [][(StepOf("checkRulesAndAlert") /\ ~Caught /\ Call.weatherData = None) =>
          LET d == CurrentRule(Call).disaster_id
              l == LocationId(Call)
              e == Call.earthquakeData[1]
          IN  /\ (Call.pc = "eq_dedup" /\ SelectByExternalId(e.id, l) = {}) =>
                    /\ alerts' = alerts
                    /\ task'["checkRulesAndAlert"].pc = "eq_deactivate"
              /\ Call.pc = "eq_deactivate" =>
                    /\ alerts' = [k \in DOMAIN alerts |->
                                     IF k \in RowsOf(d, l)
                                     THEN [alerts[k] EXCEPT !.is_active = FALSE]
                                     ELSE alerts[k]]
                    /\ task'["checkRulesAndAlert"].pc = "eq_insert"
              /\ Call.pc = "eq_insert" =>
                    /\ SubSeq(alerts', 1, Len(alerts)) = alerts
                    /\ {k \in DOMAIN alerts' : /\ alerts'[k].disaster_id = d
                                               /\ alerts'[k].location_id = l
                                               /\ alerts'[k].is_active} = {Len(alerts) + 1}
                    /\ alerts'[Len(alerts')].external_id = e.id
                    /\ alerts'[Len(alerts')].severity = CurrentRule(Call).severity_level
              /\ Call.pc \notin {"eq_deactivate", "eq_insert"} => alerts' = alerts]_vars

\* witness of C22: a point-event call returned; the alert of its event is the active
\* one of its pair and the alert it superseded had a higher severity
LowerSeveritySuperseded ==
    /\ Completed(Call) /\ Call.weatherData = None /\ Call.fired # {}
    /\ \E j, k \in DOMAIN alerts :
          /\ j < k
          /\ alerts[j].disaster_id = alerts[k].disaster_id
          /\ alerts[j].location_id = LocationId(Call)
          /\ alerts[k].location_id = LocationId(Call)
          /\ alerts[k].external_id = Call.earthquakeData[1].id
          /\ alerts[j].external_id # alerts[k].external_id
          /\ ~alerts[j].is_active
          /\ SelectActive(alerts[k].disaster_id, LocationId(Call)) = {k}
          /\ Rank(alerts[j].severity) > Rank(alerts[k].severity)

\* loop t arms its timer in the step
ArmsTimer(t) == task[t].pc = "setting" /\ task'[t].pc = "timer"

\* the delay in ms for an interval of `secs` seconds: at least the floor
DelayFor(secs) == Max(MinIntervalSecs, secs) * 1000

\* C23: the delay a loop arms its timer with after an iteration comes from the
\* settings row as it is when the loop reads it, after the check of that iteration:
\* the row's integer (at least the floor) in seconds, or the default of the loop when
\* the read fails; without a row it is the default, 300 s for the weather loop and
\* 60 s for the earthquake loop
DelayFromSettingReadAfterCheck ==
    [][\A t \in Loops :
          ArmsTimer(t) =>
              LET rows == settings[SettingKey(t)]
                  default == IF t = "weatherLoop" THEN 300000 ELSE 60000
              IN  /\ (rows = Absent \/ task'[t].failed) => task'[t].delay = default
                  /\ (rows # Absent /\ ParseInt(rows[1]) # None /\ ~task'[t].failed)
                        => task'[t].delay = DelayFor(ParseInt(rows[1])[1])]_vars

\* witness of C23: nothing was stored when the loops started; a value stored while the
\* first cycles ran is the wait of one loop and the other loop waits its default
StoredValueIsNextWait ==
    /\ task["weatherLoop"].pc = "timer" /\ task["weatherLoop"].delay = 90000
    /\ task["earthquakeLoop"].pc = "timer" /\ task["earthquakeLoop"].delay = 60000
    /\ settings["earthquake_fetch_interval"] = Absent

\* C24: the feed and the timestamp of the cache are written in one step, the
\* continuation of the fetch of an earthquake cycle: a step that changes either
\* field sets the feed to the one just fetched and the timestamp to the time of
\* the write, so every other step sees a feed together with its own timestamp
CacheFieldsWrittenTogether ==
    [][/\ (cachedEarthquakes' # cachedEarthquakes \/ earthquakeFetchTime' # earthquakeFetchTime)
          => \E t \in EarthquakeCycles :
                /\ task[t].pc = "e_fetch" /\ task'[t] # task[t]
                /\ cachedEarthquakes' = Some(task'[t].earthquakes)
                /\ earthquakeFetchTime' = clock'
       /\ \A t \in EarthquakeCycles :
             (task[t].pc = "e_fetch" /\ task'[t] # task[t])
                => cachedEarthquakes' # None /\ earthquakeFetchTime' = clock'
       /\ (cachedEarthquakes' = None) <=> (earthquakeFetchTime' = Undefined)]_vars

\* witness of C24: the cache was written again at a later time while the weather
\* loop was in a cycle, suspended after its read of the cache
CacheRewrittenDuringWeatherCycle ==
    /\ cachedEarthquakes # None
    /\ earthquakeFetchTime = MaxClock
    /\ task["weatherLoop"].pc = "w_log"
    /\ task["weatherLoop"].earthquakeData # ReadCache(Head(task["weatherLoop"].todo).latitude)

\* C25: a row inserted for a continuous-signal rule has a null external id and a
\* row inserted for a point-event rule has the external id of the event of the call
ExternalIdOnlyForPointEvents ==
    [][\A t \in Tasks :
          (StepOf(t) /\ Len(alerts') > Len(alerts)) =>
              LET row == alerts'[Len(alerts')]
              IN  IF RuleTarget(CurrentRule(task[t]).weather_condition) = "weather"
                  THEN row.external_id = NoId
                  ELSE /\ row.external_id = task[t].earthquakeData[1].id
                       /\ row.external_id # NoId]_vars

\* witness of C25: a disaster with rules of both kinds has a row without an external
\* id and a row with the id of an event
BothKindsOfRowInserted ==
    \E j, k \in DOMAIN alerts :
        /\ alerts[j].disaster_id = alerts[k].disaster_id
        /\ alerts[j].location_id = alerts[k].location_id
        /\ alerts[j].external_id = NoId
        /\ alerts[k].external_id \in {<<"us", n>> : n \in 1..MaxEvents}

\* the rules the call loaded for the disaster are continuous-signal rules, at least one
OnlyWeatherRules(f, disasterId) ==
    /\ \E k \in DOMAIN f.rules : f.rules[k].disaster_id = disasterId
    /\ \A k \in DOMAIN f.rules :
          f.rules[k].disaster_id = disasterId
              => RuleTarget(f.rules[k].weather_condition) = "weather"

\* C26: after a call with weather data that returned without a store error, a
\* disaster whose loaded rules are all continuous-signal rules has exactly one active
\* alert at the location when one of them triggered and none when none did
OneActiveIffTriggered ==
    \A d \in DisasterIds :
        (Completed(Call) /\ Call.weatherData # None /\ OnlyWeatherRules(Call, d))
        => Cardinality(SelectActive(d, LocationId(Call))) =
               IF FiredOf(Call, d) # {} THEN 1 ELSE 0

\* witness of C26: in one call a disaster triggered and has its active alert while
\* another disaster, alerted before, did not trigger and has none left
OneRaisedOneCleared ==
    /\ Completed(Call) /\ Call.weatherData # None
    /\ \E d1, d2 \in DisasterIds :
          /\ OnlyWeatherRules(Call, d1) /\ OnlyWeatherRules(Call, d2)
          /\ FiredOf(Call, d1) # {}
          /\ Cardinality(SelectActive(d1, LocationId(Call))) = 1
          /\ FiredOf(Call, d2) = {}
          /\ RowsOf(d2, LocationId(Call)) # {}
          /\ SelectActive(d2, LocationId(Call)) = {}

\* the rules of the disaster among those the call loaded that the call's event triggers
TriggeredTiers(f, disasterId) ==
    {k \in DOMAIN f.rules : /\ f.rules[k].disaster_id = disasterId
                            /\ RuleTriggers(f.rules[k], f.weatherData, f.earthquakeData)}

\* C27: the alert a point-event call inserts for its event carries the highest
\* severity among the rules of the disaster the event triggers
PointEventAlertCarriesHighestSeverity ==
    [][(StepOf("checkRulesAndAlert") /\ ~Caught /\ Call.pc = "eq_insert") =>
          \A k \in TriggeredTiers(Call, CurrentRule(Call).disaster_id) :
              Rank(Call.rules[k].severity_level) <= Rank(alerts'[Len(alerts')].severity)]_vars

\* the call has weather data, and the measurement every loaded rule of the disaster
\* refers to is absent from it
MeasurementAbsent(f, disasterId) ==
    /\ f.weatherData # None
    /\ \E k \in DOMAIN f.rules : f.rules[k].disaster_id = disasterId
    /\ \A k \in DOMAIN f.rules :
          f.rules[k].disaster_id = disasterId => ValueAt(f, k) = Undefined

\* C28: in a call whose weather data lacks the measurement the rules of a disaster
\* refer to, the active alert of that disaster at the location stays active
AbsentMeasurementKeepsAlert ==
    [][StepOf("checkRulesAndAlert") =>
          \A k \in DOMAIN alerts :
              (/\ alerts[k].location_id = LocationId(Call)
               /\ alerts[k].is_active
               /\ MeasurementAbsent(Call, alerts[k].disaster_id))
              => alerts'[k].is_active]_vars

\* the alert of (disaster, location of the call) that was active when the call was made
ActiveBefore(f, disasterId) ==
    {k \in DOMAIN f.before : /\ f.before[k].disaster_id = disasterId
                             /\ f.before[k].location_id = LocationId(f)
                             /\ f.before[k].is_active}

\* C29: when a store call fails in the middle of a call, a (disaster, location) pair
\* that had an active alert when the call was made and whose rule triggered in the
\* call is not left without an active alert (the table is as before the call or as
\* the completed call would leave it, and both have one)
FailureLeavesPairAlerted ==
    (Call.pc = "ret" /\ Call.failed)
    => \A d \in Call.triggeredDisasterIds :
           ActiveBefore(Call, d) # {} => SelectActive(d, LocationId(Call)) # {}

\* C30: with the earthquake loop and an on-demand runEqCheck evaluating the same
\* event for the same location concurrently, at most one alert row with the event's
\* external id exists for the location
AtMostOneRowPerEvent ==
    \A l \in LocationIds, n \in 1..MaxEvents :
        Cardinality(SelectByExternalId(<<"us", n>>, l)) <= 1

====
